---- MODULE Spec2Model ----
(***************************************************************************)
(* Zutty: the frame handoff between producer threads and the render        *)
(* thread (src/src/renderer.cc) and the font file search                   *)
(* (src/src/fontpack.cc).                                                  *)
(***************************************************************************)
EXTENDS Integers, Sequences, FiniteSets, TLC

(***************************************************************************)
(* Bounds of the model.                                                    *)
(***************************************************************************)
\* Number of Renderer::update calls in one run.
MaxSubmits == 3

\* Threads calling Renderer::update.
Producers == {"p1", "p2"}

\* Frame contents (grid, cursor, selection) and window pixel sizes.
Contents == {"a", "b"}
Wins == {"w1", "w2"}

\* Number of files in the tree searched by Fontpack.
MaxFiles == 3

(***************************************************************************)
(* Renderer state.                                                         *)
(***************************************************************************)
VARIABLES
    mx,         \* owner of Renderer::mx: "none", "rt", "dtor" or a producer
    done,       \* Renderer::done
    seqNo,      \* Renderer::seqNo
    nextFrame,  \* Renderer::nextFrame
    rpc,        \* position of renderThread
    lastFrame,  \* renderThread's local lastFrame
    delta,      \* renderThread's local delta
    vdevWin,    \* pixel size CharVdev currently has
    vdevDelta,  \* last argument of CharVdev::setDeltaFrame
    shown,      \* frame on display after the last swapBuffers
    ppc,        \* position of each producer inside update
    parg,       \* the frame argument of each producer's update call
    submitted,  \* number of update calls begun
    dpc,        \* position of ~Renderer
    stored,     \* history: values written to nextFrame.seqNo, in lock order
    lastSub,    \* history: the frame stored by the latest update
    passes,     \* history: one record per render pass
    vcalls,     \* history: number of resize, draw and swapBuffers calls
    rAtD        \* history: where renderThread was when ~Renderer set done

rvars == <<mx, done, seqNo, nextFrame, rpc, lastFrame, delta, vdevWin,
           vdevDelta, shown, ppc, parg, submitted, dpc, stored, lastSub,
           passes, vcalls, rAtD>>

(***************************************************************************)
(* Fontpack state.                                                         *)
(***************************************************************************)
VARIABLES
    tree,       \* the files under the search root: records [dir, name]
    dirs,       \* the directories under the search root, the root included
    family,     \* the fontname argument of Fontpack::Fontpack
    sstate,     \* the file-scope SearchState sstate
    fpc,        \* position of Fontpack::Fontpack
    cwd,        \* the directory nftw is reading, as a path from the root
    seenFiles,  \* files nftw has reported
    seenDirs,   \* directories nftw has reported
    fonts       \* paths of the Font objects loaded by the constructor

fvars ==
    <<tree, dirs, family, sstate, fpc, cwd, seenFiles, seenDirs, fonts>>

vars == <<rvars, fvars>>

\* A default-constructed Frame.
DefaultFrame == [seqNo |-> 0, content |-> "none", win |-> "none"]

\* The pixel size a newly made CharVdev may have: one of the window sizes or
\* none of them.
CharVdevInit == Wins \cup {"none"}

\* State after Renderer::Renderer: the thread object exists, renderThread
\* has not run yet.  CharVdev's first size is not known to this code.
RendererInit ==
    /\ mx = "none"
    /\ done = FALSE
    /\ seqNo = 0
    /\ nextFrame = DefaultFrame
    /\ rpc = "init"
    /\ lastFrame = DefaultFrame
    /\ delta = FALSE
    /\ vdevWin \in CharVdevInit
    /\ vdevDelta = FALSE
    /\ shown = DefaultFrame
    /\ ppc = [p \in Producers |-> "idle"]
    /\ parg = [p \in Producers |-> DefaultFrame]
    /\ submitted = 0
    /\ dpc = "alive"
    /\ stored = <<>>
    /\ lastSub = DefaultFrame
    /\ passes = <<>>
    /\ vcalls = 0
    /\ rAtD = "none"

\* std::condition_variable::notify_one: wakes the render thread if it is
\* blocked in cond.wait, and is lost otherwise.
NotifyOne(r) == IF r = "blocked" THEN "woken" ELSE r

(***************************************************************************)
(* Renderer::update                                                        *)
(***************************************************************************)
\* A caller enters update (frame) with some frame.  No call is made once
\* destruction of the Renderer has begun.
UpdateCall(p, c, w) ==
    /\ ppc[p] = "idle"
    /\ dpc = "alive"
    /\ submitted < MaxSubmits
    /\ ppc' = [ppc EXCEPT ![p] = "lock"]
    /\ parg' = [parg EXCEPT ![p] = [seqNo |-> 0, content |-> c, win |-> w]]
    /\ submitted' = submitted + 1
    /\ UNCHANGED <<mx, done, seqNo, nextFrame, rpc, lastFrame, delta, vdevWin,
                   vdevDelta, shown, dpc, stored, lastSub, passes, vcalls,
                   rAtD, fvars>>

\* std::unique_lock <std::mutex> lk (mx);
UpdateLock(p) ==
    /\ ppc[p] = "lock"
    /\ mx = "none"
    /\ mx' = p
    /\ ppc' = [ppc EXCEPT ![p] = "store"]
    /\ UNCHANGED <<done, seqNo, nextFrame, rpc, lastFrame, delta, vdevWin,
                   vdevDelta, shown, parg, submitted, dpc, stored, lastSub,
                   passes, vcalls, rAtD, fvars>>

\* The same with seqNo++ in place of ++seqNo.
UpdateStorePostfix(p) ==
    /\ ppc[p] = "store"
    /\ nextFrame' = [parg[p] EXCEPT !.seqNo = seqNo]
    /\ seqNo' = seqNo + 1
    /\ mx' = "none"
    /\ ppc' = [ppc EXCEPT ![p] = "notify"]
    /\ stored' = Append(stored, seqNo)
    /\ lastSub' = [parg[p] EXCEPT !.seqNo = seqNo]
    /\ UNCHANGED <<done, rpc, lastFrame, delta, vdevWin, vdevDelta, shown,
                   parg, submitted, dpc, passes, vcalls, rAtD, fvars>>

\* nextFrame = frame; nextFrame.seqNo = ++seqNo; lk.unlock ();
UpdateStore(p) ==
    /\ ppc[p] = "store"
    /\ nextFrame' = [parg[p] EXCEPT !.seqNo = seqNo + 1]
    /\ seqNo' = seqNo + 1
    /\ mx' = "none"
    /\ ppc' = [ppc EXCEPT ![p] = "notify"]
    /\ stored' = Append(stored, seqNo + 1)
    /\ lastSub' = [parg[p] EXCEPT !.seqNo = seqNo + 1]
    /\ UNCHANGED <<done, rpc, lastFrame, delta, vdevWin, vdevDelta, shown,
                   parg, submitted, dpc, passes, vcalls, rAtD, fvars>>

\* The same returning without cond.notify_one ().
UpdateNotifyMissing(p) ==
    /\ ppc[p] = "notify"
    /\ ppc' = [ppc EXCEPT ![p] = "idle"]
    /\ parg' = [parg EXCEPT ![p] = DefaultFrame]
    /\ UNCHANGED <<mx, done, seqNo, nextFrame, rpc, lastFrame, delta, vdevWin,
                   vdevDelta, shown, submitted, dpc, stored, lastSub,
                   passes, vcalls, rAtD, fvars>>

\* cond.notify_one (); and return: the call's argument is gone.
UpdateNotify(p) ==
    /\ ppc[p] = "notify"
    /\ rpc' = NotifyOne(rpc)
    /\ ppc' = [ppc EXCEPT ![p] = "idle"]
    /\ parg' = [parg EXCEPT ![p] = DefaultFrame]
    /\ UNCHANGED <<mx, done, seqNo, nextFrame, lastFrame, delta, vdevWin,
                   vdevDelta, shown, submitted, dpc, stored, lastSub,
                   passes, vcalls, rAtD, fvars>>

(***************************************************************************)
(* Renderer::~Renderer                                                     *)
(***************************************************************************)
\* Destruction begins; every update call has returned by then.
DtorCall ==
    /\ dpc = "alive"
    /\ \A p \in Producers : ppc[p] = "idle"
    /\ dpc' = "lock"
    /\ UNCHANGED <<mx, done, seqNo, nextFrame, rpc, lastFrame, delta, vdevWin,
                   vdevDelta, shown, ppc, parg, submitted, stored, lastSub,
                   passes, vcalls, rAtD, fvars>>

\* std::unique_lock <std::mutex> lk (mx);
DtorLock ==
    /\ dpc = "lock"
    /\ mx = "none"
    /\ mx' = "dtor"
    /\ dpc' = "set"
    /\ UNCHANGED <<done, seqNo, nextFrame, rpc, lastFrame, delta, vdevWin,
                   vdevDelta, shown, ppc, parg, submitted, stored, lastSub,
                   passes, vcalls, rAtD, fvars>>

\* The same without the final sequence bump.
DtorSetNoBump ==
    /\ dpc = "set"
    /\ done' = TRUE
    /\ mx' = "none"
    /\ dpc' = "notify"
    /\ stored' = Append(stored, seqNo)
    /\ rAtD' = rpc
    /\ UNCHANGED <<seqNo, nextFrame, rpc, lastFrame, delta, vdevWin,
                   vdevDelta, shown, ppc, parg, submitted, lastSub, passes,
                   vcalls, fvars>>

\* done = true; nextFrame.seqNo = ++seqNo; lk.unlock ();
DtorSet ==
    /\ dpc = "set"
    /\ done' = TRUE
    /\ nextFrame' = [nextFrame EXCEPT !.seqNo = seqNo + 1]
    /\ seqNo' = seqNo + 1
    /\ mx' = "none"
    /\ dpc' = "notify"
    /\ stored' = Append(stored, seqNo + 1)
    /\ rAtD' = rpc
    /\ UNCHANGED <<rpc, lastFrame, delta, vdevWin, vdevDelta, shown, ppc,
                   parg, submitted, lastSub, passes, vcalls, fvars>>

\* cond.notify_one ();
DtorNotify ==
    /\ dpc = "notify"
    /\ rpc' = NotifyOne(rpc)
    /\ dpc' = "join"
    /\ UNCHANGED <<mx, done, seqNo, nextFrame, lastFrame, delta, vdevWin,
                   vdevDelta, shown, ppc, parg, submitted, stored, lastSub,
                   passes, vcalls, rAtD, fvars>>

\* The same returning without waiting for the thread.
DtorJoinNoWait ==
    /\ dpc = "join"
    /\ dpc' = "returned"
    /\ UNCHANGED <<mx, done, seqNo, nextFrame, rpc, lastFrame, delta, vdevWin,
                   vdevDelta, shown, ppc, parg, submitted, stored, lastSub,
                   passes, vcalls, rAtD, fvars>>

\* thr.join (); and return.
DtorJoin ==
    /\ dpc = "join"
    /\ rpc = "terminated"
    /\ dpc' = "returned"
    /\ UNCHANGED <<mx, done, seqNo, nextFrame, rpc, lastFrame, delta, vdevWin,
                   vdevDelta, shown, ppc, parg, submitted, stored, lastSub,
                   passes, vcalls, rAtD, fvars>>

(***************************************************************************)
(* Renderer::renderThread                                                  *)
(***************************************************************************)
\* initDisplay (); charVdev = std::make_unique <CharVdev> (fontpk);
RenderInit ==
    /\ rpc = "init"
    /\ rpc' = "lock"
    /\ UNCHANGED <<mx, done, seqNo, nextFrame, lastFrame, delta, vdevWin,
                   vdevDelta, shown, ppc, parg, submitted, dpc, stored,
                   lastSub, passes, vcalls, rAtD, fvars>>

\* std::unique_lock <std::mutex> lk (mx); at the top of the loop.
RenderLock ==
    /\ rpc = "lock"
    /\ mx = "none"
    /\ mx' = "rt"
    /\ rpc' = "wait"
    /\ UNCHANGED <<done, seqNo, nextFrame, lastFrame, delta, vdevWin,
                   vdevDelta, shown, ppc, parg, submitted, dpc, stored,
                   lastSub, passes, vcalls, rAtD, fvars>>

\* A wait without predicate: any return of the wait is taken for a new frame.
WaitPredAlways == TRUE

\* The predicate of cond.wait.
WaitPred == lastFrame.seqNo # nextFrame.seqNo

\* cond.wait (lk, pred): with the lock held, either the predicate holds and
\* wait returns, or the lock is released and the thread blocks.
RenderWait ==
    /\ rpc = "wait"
    /\ IF WaitPred
       THEN /\ rpc' = "check"
            /\ mx' = mx
       ELSE /\ rpc' = "blocked"
            /\ mx' = "none"
    /\ UNCHANGED <<done, seqNo, nextFrame, lastFrame, delta, vdevWin,
                   vdevDelta, shown, ppc, parg, submitted, dpc, stored,
                   lastSub, passes, vcalls, rAtD, fvars>>

\* A spurious wakeup of cond.wait.
RenderSpurious ==
    /\ rpc = "blocked"
    /\ rpc' = "woken"
    /\ UNCHANGED <<mx, done, seqNo, nextFrame, lastFrame, delta, vdevWin,
                   vdevDelta, shown, ppc, parg, submitted, dpc, stored,
                   lastSub, passes, vcalls, rAtD, fvars>>

\* cond.wait reacquires the lock after a wakeup and tests the predicate again.
RenderReacquire ==
    /\ rpc = "woken"
    /\ mx = "none"
    /\ mx' = "rt"
    /\ rpc' = "wait"
    /\ UNCHANGED <<done, seqNo, nextFrame, lastFrame, delta, vdevWin,
                   vdevDelta, shown, ppc, parg, submitted, dpc, stored,
                   lastSub, passes, vcalls, rAtD, fvars>>

\* A pass record, opened when a frame is consumed.
NewPass == [seq |-> nextFrame.seqNo, resized |-> "unset", copy |-> "unset",
            flag |-> "unset"]

\* The same returning on done only when no frame other than the destructor's
\* bump is waiting to be rendered.
RenderCheckDrain ==
    /\ rpc = "check"
    /\ IF done /\ lastFrame.seqNo + 1 = nextFrame.seqNo
       THEN /\ rpc' = "terminated"
            /\ mx' = "none"
            /\ UNCHANGED <<delta, lastFrame, passes>>
       ELSE /\ delta' = (lastFrame.seqNo + 1 = nextFrame.seqNo)
            /\ lastFrame' = nextFrame
            /\ mx' = "none"
            /\ rpc' = "resize"
            /\ passes' = Append(passes, NewPass)
    /\ UNCHANGED <<done, seqNo, nextFrame, vdevWin, vdevDelta, shown, ppc,
                   parg, submitted, dpc, stored, lastSub, vcalls, rAtD,
                   fvars>>

\* The same keeping the lock through the pass (no lk.unlock ()).
RenderCheckKeepLock ==
    /\ rpc = "check"
    /\ IF done
       THEN /\ rpc' = "terminated"
            /\ mx' = "none"
            /\ UNCHANGED <<delta, lastFrame, passes>>
       ELSE /\ delta' = (lastFrame.seqNo + 1 = nextFrame.seqNo)
            /\ lastFrame' = nextFrame
            /\ mx' = mx
            /\ rpc' = "resize"
            /\ passes' = Append(passes, NewPass)
    /\ UNCHANGED <<done, seqNo, nextFrame, vdevWin, vdevDelta, shown, ppc,
                   parg, submitted, dpc, stored, lastSub, vcalls, rAtD,
                   fvars>>

\* The same with delta set whenever the sequence number has advanced.
RenderCheckAnyAdvance ==
    /\ rpc = "check"
    /\ IF done
       THEN /\ rpc' = "terminated"
            /\ mx' = "none"
            /\ UNCHANGED <<delta, lastFrame, passes>>
       ELSE /\ delta' = (lastFrame.seqNo < nextFrame.seqNo)
            /\ lastFrame' = nextFrame
            /\ mx' = "none"
            /\ rpc' = "resize"
            /\ passes' = Append(passes, NewPass)
    /\ UNCHANGED <<done, seqNo, nextFrame, vdevWin, vdevDelta, shown, ppc,
                   parg, submitted, dpc, stored, lastSub, vcalls, rAtD,
                   fvars>>

\* if (done) return;
\* delta = (lastFrame.seqNo + 1 == nextFrame.seqNo); lastFrame = nextFrame;
\* lk.unlock ();
RenderCheck ==
    /\ rpc = "check"
    /\ IF done
       THEN /\ rpc' = "terminated"
            /\ mx' = "none"
            /\ UNCHANGED <<delta, lastFrame, passes>>
       ELSE /\ delta' = (lastFrame.seqNo + 1 = nextFrame.seqNo)
            /\ lastFrame' = nextFrame
            /\ mx' = "none"
            /\ rpc' = "resize"
            /\ passes' = Append(passes, NewPass)
    /\ UNCHANGED <<done, seqNo, nextFrame, vdevWin, vdevDelta, shown, ppc,
                   parg, submitted, dpc, stored, lastSub, vcalls, rAtD,
                   fvars>>

\* CharVdev::resize reports whether the pixel size changed.
Resize(cur, win) == cur # win

\* if (charVdev->resize (lastFrame.winPx, lastFrame.winPy)) delta = false;
RenderResize ==
    /\ rpc = "resize"
    /\ vdevWin' = lastFrame.win
    /\ delta' = IF Resize(vdevWin, lastFrame.win) THEN FALSE ELSE delta
    /\ passes' = [passes EXCEPT ![Len(passes)].resized =
                       IF Resize(vdevWin, lastFrame.win) THEN "yes" ELSE "no"]
    /\ vcalls' = vcalls + 1
    /\ rpc' = "copy"
    /\ UNCHANGED <<mx, done, seqNo, nextFrame, lastFrame, vdevDelta, shown,
                   ppc, parg, submitted, dpc, stored, lastSub, rAtD, fvars>>

\* if (delta) lastFrame.deltaCopyCells (m.cells);
\* else lastFrame.copyCells (m.cells);
RenderCopy ==
    /\ rpc = "copy"
    /\ passes' = [passes EXCEPT ![Len(passes)].copy =
                                     IF delta THEN "delta" ELSE "full"]
    /\ rpc' = "draw"
    /\ UNCHANGED <<mx, done, seqNo, nextFrame, lastFrame, delta, vdevWin,
                   vdevDelta, shown, ppc, parg, submitted, dpc, stored,
                   lastSub, vcalls, rAtD, fvars>>

\* charVdev->setDeltaFrame (delta); setCursor; setSelection; draw ();
RenderDraw ==
    /\ rpc = "draw"
    /\ vdevDelta' = delta
    /\ passes' = [passes EXCEPT ![Len(passes)].flag =
                                     IF delta THEN "delta" ELSE "full"]
    /\ vcalls' = vcalls + 1
    /\ rpc' = "swap"
    /\ UNCHANGED <<mx, done, seqNo, nextFrame, lastFrame, delta, vdevWin,
                   shown, ppc, parg, submitted, dpc, stored, lastSub, rAtD,
                   fvars>>

\* swapBuffers (); and back to the top of the loop.
RenderSwap ==
    /\ rpc = "swap"
    /\ shown' = lastFrame
    /\ vcalls' = vcalls + 1
    /\ rpc' = "lock"
    /\ UNCHANGED <<mx, done, seqNo, nextFrame, lastFrame, delta, vdevWin,
                   vdevDelta, ppc, parg, submitted, dpc, stored, lastSub,
                   passes, rAtD, fvars>>

(***************************************************************************)
(* C strings: sequences of one-character strings; a pointer into a string  *)
(* is a position in it, 0 for the null pointer.                            *)
(***************************************************************************)
NUL == "NUL"

UpperCase == <<"A", "B", "C", "D", "E", "F", "G", "H", "I", "J", "K", "L", "M",
               "N", "O", "P", "Q", "R", "S", "T", "U", "V", "W", "X", "Y", "Z">>

LowerCase == <<"a", "b", "c", "d", "e", "f", "g", "h", "i", "j", "k", "l", "m",
               "n", "o", "p", "q", "r", "s", "t", "u", "v", "w", "x", "y", "z">>

\* tolower
LowerOf == [i \in 1 .. 26 |-> LowerCase[i]]

ToLower(c) ==
    LET up == {i \in 1 .. 26 : UpperCase[i] = c}
    IN  IF up = {} THEN c ELSE LowerOf[CHOOSE i \in up : TRUE]

Min(a, b) == IF a < b THEN a ELSE b

\* s[i - 1] in C: the terminating NUL past the last character.
CharAt(s, i) == IF i \in 1 .. Len(s) THEN s[i] ELSE NUL

\* The string a pointer at position p of s points to.
StrAt(s, p) == SubSeq(s, p, Len(s))

\* strncasecmp (a, b, n) == 0: at most n characters are compared, and the
\* comparison ends at the NUL of a.
StrNCaseEq(a, b, n) ==
    \A i \in 1 .. Min(n, Len(a) + 1) :
        ToLower(CharAt(a, i)) = ToLower(CharAt(b, i))

\* strcasecmp (a, b) == 0
StrCaseEq(a, b) ==
    \A i \in 1 .. Len(a) + 1 : ToLower(CharAt(a, i)) = ToLower(CharAt(b, i))

\* strrchr (s, c): the position of the last c in s, 0 if there is none.
StrRChr(s, c) ==
    IF \E i \in 1 .. Len(s) : s[i] = c
    THEN CHOOSE i \in 1 .. Len(s) :
             s[i] = c /\ \A j \in (i + 1) .. Len(s) : s[j] # c
    ELSE 0

(***************************************************************************)
(* The search tree.  The directories are fixed: the root fonts, fonts/A,   *)
(* fonts/B and fonts/A/S; a tree is a choice of files in them.             *)
(***************************************************************************)
RootPath == <<"f", "o", "n", "t", "s">>

Dirs == {<<>>, <<"A">>, <<"B">>, <<"A", "S">>}

Names ==
    {<<"G", "o", "-", "R", "e", "g", "u", "l", "a", "r", ".", "t", "t", "f">>,
     <<"G", "o", "-", "B", "o", "l", "d", ".", "t", "t", "f">>,
     <<"G", "o", "-", "B", "o", "l", "d", ".", "o", "t", "f">>,
     <<"F", "o", "o", "-", "B", "o", "l", "d", ".", "t", "t", "f">>,
     <<"F", "o", "o", ".", "T", "T", "F">>}

Families == {<<"G", "o">>, <<"F", "o", "o">>}

Slots == [dir : Dirs, name : Names]

\* The sets of at most k elements of S.
RECURSIVE SubsetsUpTo(_, _)
SubsetsUpTo(S, k) ==
    IF k = 0
    THEN {{}}
    ELSE LET prev == SubsetsUpTo(S, k - 1)
         IN  prev \cup {t \cup {x} : t \in prev, x \in S}

\* The characters of the name of a directory: Go is the directory of the
\* family Go, the others have one-letter names.
DirName(c) == IF c = "Go" THEN <<"G", "o">> ELSE <<c>>

\* The path nftw passes for directory d.
RECURSIVE DirPath(_)
DirPath(d) ==
    IF d = <<>>
    THEN RootPath
    ELSE DirPath(SubSeq(d, 1, Len(d) - 1)) \o <<"/">> \o DirName(d[Len(d)])

\* The path nftw passes for file f, and ftwbuf->base for it.
FilePath(f) == DirPath(f.dir) \o <<"/">> \o f.name

FileBase(f) == Len(DirPath(f.dir)) + 1

DirBase(d) ==
    IF d = <<>> THEN 0 ELSE Len(DirPath(d)) - Len(DirName(d[Len(d)]))

(***************************************************************************)
(* SearchState, saveCandidate and fontFileFilter.                          *)
(***************************************************************************)
\* SearchState's member initializers.
InitSearchState ==
    [fontname |-> <<>>, level |-> 0, ext |-> <<>>, regular |-> <<>>,
     bold |-> <<>>, italic |-> <<>>, boldItalic |-> <<>>]

Variants == {"regular", "bold", "italic", "boldItalic"}

\* The same recording the depth before the extension is compared.
saveCandidateLevelFirst(st, fpath, ext, level, dest) ==
    IF st.ext # <<>> /\ st.ext # ext
    THEN [ret |-> 1, st |-> [st EXCEPT !.level = level]]
    ELSE [ret |-> 0,
          st |-> [st EXCEPT ![dest] = fpath, !.ext = ext, !.level = level]]

\* The same without the comparison against the committed extension.
saveCandidateAnyExt(st, fpath, ext, level, dest) ==
    [ret |-> 0,
     st |-> [st EXCEPT ![dest] = fpath, !.ext = ext, !.level = level]]

\* saveCandidate: the value returned and sstate afterwards.
saveCandidate(st, fpath, ext, level, dest) ==
    IF st.ext # <<>> /\ st.ext # ext
    THEN [ret |-> 1, st |-> st]
    ELSE [ret |-> 0,
          st |-> [st EXCEPT ![dest] = fpath, !.ext = ext, !.level = level]]

FTW_F == "FTW_F"
FTW_D == "FTW_D"
FTW_DP == "FTW_DP"

\* do --ext; while (ext > fname && ext [0] != '.');
RECURSIVE GzBack(_, _)
GzBack(fname, p) ==
    LET q == p - 1
    IN  IF q > 1 /\ fname[q] # "." THEN GzBack(fname, q) ELSE q

\* The same without the step back from a .gz ending.
ExtPosNoMerge(fname) == StrRChr(fname, ".")

\* The position of ext in fname after the extension has been found.
ExtPos(fname) ==
    LET p == StrRChr(fname, ".")
    IN  IF p = 0
        THEN 0
        ELSE IF StrCaseEq(StrAt(fname, p), <<".", "g", "z">>) /\ p > 1
             THEN GzBack(fname, p)
             ELSE p

\* The extension filter.
AcceptedExt(ext) ==
    \/ StrCaseEq(ext, <<".", "t", "t", "f">>)
    \/ StrCaseEq(ext, <<".", "o", "t", "f">>)
    \/ StrCaseEq(ext, <<".", "p", "c", "f", ".", "g", "z">>)

\* The same keeping a leading hyphen, underscore or space.
MidOfKeepSep(fname, fontnamelen, extpos) ==
    [pos |-> fontnamelen + 1, len |-> extpos - (fontnamelen + 1)]

\* The position of mid in fname and midlen, once an optional hyphen,
\* underscore or space has been discarded.
MidOf(fname, fontnamelen, extpos) ==
    LET mid == fontnamelen + 1
        midlen == extpos - mid
    IN  IF midlen > 0 /\ CharAt(fname, mid) \in {"-", "_", " "}
        THEN [pos |-> mid + 1, len |-> midlen - 1]
        ELSE [pos |-> mid, len |-> midlen]

\* The heuristics identifying the variant: the member of sstate the file is
\* saved to, "none" if the file is passed over.
VariantOf(mid, midlen) ==
    IF \/ midlen = 0
       \/ StrNCaseEq(mid, <<"R">>, midlen)
       \/ StrNCaseEq(mid, <<"R", "e", "g", "u", "l", "a", "r">>, midlen)
    THEN "regular"
    ELSE IF \/ StrNCaseEq(mid, <<"B">>, midlen)
            \/ StrNCaseEq(mid, <<"B", "o", "l", "d">>, midlen)
    THEN "bold"
    ELSE IF \/ StrNCaseEq(mid, <<"I">>, midlen)
            \/ StrNCaseEq(mid, <<"I", "t">>, midlen)
            \/ StrNCaseEq(mid, <<"I", "t", "a", "l", "i", "c">>, midlen)
            \/ StrNCaseEq(mid, <<"O">>, midlen)
            \/ StrNCaseEq(mid, <<"O", "b">>, midlen)
            \/ StrNCaseEq(mid, <<"O", "b", "l", "i", "q", "u", "e">>, midlen)
    THEN "italic"
    ELSE IF \/ StrNCaseEq(mid, <<"B", "I">>, midlen)
            \/ StrNCaseEq(mid, <<"B", "o", "l", "d", "I", "t">>, midlen)
            \/ StrNCaseEq(mid, <<"B", "o", "l", "d", "I", "t", "a", "l", "i",
                                 "c">>, midlen)
    THEN "boldItalic"
    ELSE "none"

\* What fontFileFilter does with a regular file named fname when the font
\* name is fontname: the variant it saves it as, "none" if it returns early.
Classify(fname, fontname) ==
    LET extpos == ExtPos(fname)
    IN  IF extpos = 0
        THEN "none"
        ELSE IF ~AcceptedExt(StrAt(fname, extpos))
        THEN "none"
        ELSE IF ~StrNCaseEq(fname, fontname, Len(fontname))
        THEN "none"
        ELSE LET m == MidOf(fname, Len(fontname), extpos)
             IN  VariantOf(StrAt(fname, m.pos), m.len)

\* sstate with the results cleared.
Cleared(st) ==
    [st EXCEPT !.level = 0, !.ext = <<>>, !.regular = <<>>, !.bold = <<>>,
               !.italic = <<>>, !.boldItalic = <<>>]

\* fontFileFilter (fpath, sb, tflag, ftwbuf) with ftwbuf->base = base and
\* ftwbuf->level = level: the value returned and sstate afterwards.
fontFileFilter(st, fpath, base, tflag, level) ==
    IF /\ tflag = FTW_D
       /\ st.level > 0
       /\ level = st.level - 1
       /\ Len(st.regular) > 0
    THEN [ret |-> 1, st |-> st]
    ELSE IF tflag = FTW_D /\ st.level > 0
    THEN [ret |-> 0, st |-> Cleared(st)]
    ELSE IF tflag # FTW_F
    THEN [ret |-> 0, st |-> st]
    ELSE LET fname == StrAt(fpath, base + 1)
             dest == Classify(fname, st.fontname)
         IN  IF dest = "none"
             THEN [ret |-> 0, st |-> st]
             ELSE [ret |-> 0,
                   st |-> saveCandidate(st, fpath,
                                        StrAt(fname, ExtPos(fname)),
                                        level, dest).st]

(***************************************************************************)
(* nftw (fontpath, fontFileFilter, 16, FTW_DEPTH) and Fontpack::Fontpack.  *)
(***************************************************************************)
\* The type flag of a directory in a walk without FTW_DEPTH.
DirFlagPreorder == FTW_D

\* The type flag nftw passes for a directory: with FTW_DEPTH a directory is
\* reported after its contents, and with FTW_DP (FTW_D is passed only when
\* FTW_DEPTH is not set).
DirFlag == FTW_DP

\* Before the Fontpack is constructed.
FontInit ==
    /\ tree \in SubsetsUpTo(Slots, MaxFiles)
    /\ dirs = Dirs
    /\ family \in Families
    /\ sstate = InitSearchState
    /\ fpc = "start"
    /\ cwd = <<>>
    /\ seenFiles = {}
    /\ seenDirs = {}
    /\ fonts = [v \in Variants |-> <<>>]

\* No Fontpack is being constructed.
FontIdle ==
    /\ tree = {}
    /\ dirs = {}
    /\ family = <<>>
    /\ sstate = InitSearchState
    /\ fpc = "idle"
    /\ cwd = <<>>
    /\ seenFiles = {}
    /\ seenDirs = {}
    /\ fonts = [v \in Variants |-> <<>>]

\* sstate.fontname = fontname.data (); sstate.fontnamelen = fontname.size ();
\* and nftw opens the root.
FontpackBegin ==
    /\ fpc = "start"
    /\ sstate' = [sstate EXCEPT !.fontname = family]
    /\ fpc' = "walk"
    /\ UNCHANGED <<tree, dirs, family, cwd, seenFiles, seenDirs, fonts, rvars>>

\* nftw descends into a subdirectory of the directory it is reading.
NftwEnter(d) ==
    /\ fpc = "walk"
    /\ d \notin seenDirs
    /\ Len(d) = Len(cwd) + 1
    /\ SubSeq(d, 1, Len(cwd)) = cwd
    /\ cwd' = d
    /\ UNCHANGED <<tree, dirs, family, sstate, fpc, seenFiles, seenDirs,
                   fonts, rvars>>

\* nftw reports a file of the directory it is reading; a nonzero return
\* value ends the walk.
NftwFile(f) ==
    /\ fpc = "walk"
    /\ f \notin seenFiles
    /\ f.dir = cwd
    /\ LET r == fontFileFilter(sstate, FilePath(f), FileBase(f), FTW_F,
                               Len(cwd) + 1)
       IN  /\ sstate' = r.st
           /\ fpc' = IF r.ret # 0 THEN "walked" ELSE "walk"
    /\ seenFiles' = seenFiles \cup {f}
    /\ UNCHANGED <<tree, dirs, family, cwd, seenDirs, fonts, rvars>>

\* nftw has reported everything in the directory it is reading and reports
\* the directory itself, then goes back to the parent; the walk ends after
\* the root or on a nonzero return value.
NftwDir ==
    /\ fpc = "walk"
    /\ \A f \in tree : f.dir = cwd => f \in seenFiles
    /\ \A d \in dirs :
           (Len(d) = Len(cwd) + 1 /\ SubSeq(d, 1, Len(cwd)) = cwd)
               => d \in seenDirs
    /\ LET r == fontFileFilter(sstate, DirPath(cwd), DirBase(cwd), DirFlag,
                               Len(cwd))
       IN  /\ sstate' = r.st
           /\ fpc' = IF r.ret # 0 \/ cwd = <<>> THEN "walked" ELSE "walk"
    /\ seenDirs' = seenDirs \cup {cwd}
    /\ cwd' = IF cwd = <<>> THEN cwd ELSE SubSeq(cwd, 1, Len(cwd) - 1)
    /\ UNCHANGED <<tree, dirs, family, seenFiles, fonts, rvars>>

\* The Font objects made from sstate.
LoadFonts(st) == [v \in Variants |-> st[v]]

\* The same accepting any recorded variant in place of Regular.
FontpackEndAnyVariant ==
    /\ fpc = "walked"
    /\ IF \A v \in Variants : Len(sstate[v]) = 0
       THEN /\ fpc' = "error"
            /\ fonts' = fonts
       ELSE /\ fpc' = "ok"
            /\ fonts' = LoadFonts(sstate)
    /\ UNCHANGED <<tree, dirs, family, sstate, cwd, seenFiles, seenDirs, rvars>>

\* if (! sstate.regular.size ()) throw std::runtime_error (...);
\* otherwise the fonts are loaded from the recorded paths.
FontpackEnd ==
    /\ fpc = "walked"
    /\ IF Len(sstate.regular) = 0
       THEN /\ fpc' = "error"
            /\ fonts' = fonts
       ELSE /\ fpc' = "ok"
            /\ fonts' = LoadFonts(sstate)
    /\ UNCHANGED <<tree, dirs, family, sstate, cwd, seenFiles, seenDirs, rvars>>

FontNext ==
    \/ FontpackBegin
    \/ \E d \in dirs : NftwEnter(d)
    \/ \E f \in tree : NftwFile(f)
    \/ NftwDir
    \/ FontpackEnd

\* No Renderer exists while the Fontpack is constructed.
RendererIdle ==
    /\ mx = "none"
    /\ done = FALSE
    /\ seqNo = 0
    /\ nextFrame = DefaultFrame
    /\ rpc = "unborn"
    /\ lastFrame = DefaultFrame
    /\ delta = FALSE
    /\ vdevWin = "none"
    /\ vdevDelta = FALSE
    /\ shown = DefaultFrame
    /\ ppc = [p \in Producers |-> "idle"]
    /\ parg = [p \in Producers |-> DefaultFrame]
    /\ submitted = 0
    /\ dpc = "unborn"
    /\ stored = <<>>
    /\ lastSub = DefaultFrame
    /\ passes = <<>>
    /\ vcalls = 0
    /\ rAtD = "none"

FontSpecInit == RendererIdle /\ FontInit

FontSpec == FontSpecInit /\ [][FontNext]_vars


(***************************************************************************)
(* The scenarios of a directory fonts/Go holding the files of the family   *)
(* Go, searched for the font name Go; fonts/Go is the only directory under *)
(* the root or has an empty directory fonts/B next to it.                  *)
(***************************************************************************)
GoDir == <<"Go">>

GoRegularTtf == [dir |-> GoDir, name |-> <<"G", "o", "-", "R", "e", "g", "u", "l", "a", "r", ".", "t", "t", "f">>]

GoBoldTtf == [dir |-> GoDir, name |-> <<"G", "o", "-", "B", "o", "l", "d", ".", "t", "t", "f">>]

GoItalicTtf == [dir |-> GoDir, name |-> <<"G", "o", "-", "I", "t", "a", "l", "i", "c", ".", "t", "t", "f">>]

GoBoldItalicTtf ==
    [dir |-> GoDir,
     name |-> <<"G", "o", "-", "B", "o", "l", "d", "I", "t", "a", "l", "i", "c", ".", "t", "t", "f">>]

GoBoldOtf == [dir |-> GoDir, name |-> <<"G", "o", "-", "B", "o", "l", "d", ".", "o", "t", "f">>]

ScenarioA == {GoRegularTtf, GoBoldTtf, GoItalicTtf, GoBoldItalicTtf}

ScenarioB == ScenarioA \cup {GoBoldOtf}

ScenarioInit ==
    /\ tree \in {ScenarioA, ScenarioB}
    /\ dirs \in {{<<>>, GoDir}, {<<>>, GoDir, <<"B">>}}
    /\ family = <<"G", "o">>
    /\ sstate = InitSearchState
    /\ fpc = "start"
    /\ cwd = <<>>
    /\ seenFiles = {}
    /\ seenDirs = {}
    /\ fonts = [v \in Variants |-> <<>>]

ScenarioSpecInit == RendererIdle /\ ScenarioInit

ScenarioSpec == ScenarioSpecInit /\ [][FontNext]_vars

(***************************************************************************)
(* One file under the root, in the root or in fonts/A, whose name is made  *)
(* of a family prefix, a separator or none, a middle part and an ending.   *)
(***************************************************************************)
FilterPrefixes == {<<"G", "o">>, <<"g", "O">>}

FilterSeps == {<<>>, <<"-">>, <<"_">>, <<" ">>}

FilterMids ==
    {<<>>, <<"R">>, <<"R", "e", "g", "u", "l", "a", "r">>, <<"B">>,
     <<"B", "o", "l", "d">>, <<"I">>, <<"I", "t">>,
     <<"I", "t", "a", "l", "i", "c">>, <<"O">>, <<"O", "b">>,
     <<"O", "b", "l", "i", "q", "u", "e">>, <<"B", "I">>,
     <<"B", "o", "l", "d", "I", "t">>,
     <<"B", "o", "l", "d", "I", "t", "a", "l", "i", "c">>, <<"R", "e", "g">>,
     <<"R", "e">>, <<"B", "o">>, <<"I", "t", "a", "l">>, <<"O", "b", "l">>,
     <<"B", "o", "l", "d", "I">>, <<"b", "o", "l", "d">>,
     <<"R", "E", "G", "U", "L", "A", "R">>, <<"X">>}

FilterExts ==
    {<<".", "t", "t", "f">>, <<".", "o", "t", "f">>,
     <<".", "p", "c", "f", ".", "g", "z">>, <<".", "T", "T", "F">>,
     <<".", "P", "c", "f", ".", "G", "Z">>, <<".", "g", "z">>,
     <<".", "t", "x", "t">>, <<".", "t", "t", "f", ".", "g", "z">>, <<>>}

FilterNames ==
    {p \o sep \o mid \o ext :
         p \in FilterPrefixes, sep \in FilterSeps, mid \in FilterMids,
         ext \in FilterExts}

FilterInit ==
    /\ \E d \in {<<>>, <<"A">>}, n \in FilterNames :
           tree = {[dir |-> d, name |-> n]}
    /\ dirs = {<<>>, <<"A">>}
    /\ family \in Families
    /\ sstate = InitSearchState
    /\ fpc = "start"
    /\ cwd = <<>>
    /\ seenFiles = {}
    /\ seenDirs = {}
    /\ fonts = [v \in Variants |-> <<>>]

FilterSpecInit == RendererIdle /\ FilterInit

FilterSpec == FilterSpecInit /\ [][FontNext]_vars

(***************************************************************************)
(* Fontpacks constructed one after another in one process, each with its   *)
(* own tree of at most one file and its own font name: sstate is a         *)
(* file-scope object and the constructor assigns only its fontname, so     *)
(* what a construction left in it is there when the next one begins.       *)
(***************************************************************************)
RepeatSlots ==
    [dir : {<<"A">>, <<"B">>},
     name : {<<"G", "o", "-", "R", "e", "g", "u", "l", "a", "r", ".", "t", "t", "f">>,
             <<"F", "o", "o", "-", "B", "o", "l", "d", ".", "t", "t", "f">>,
             <<"F", "o", "o", ".", "T", "T", "F">>}]

RepeatTrees == {{}} \cup {{f} : f \in RepeatSlots}

RepeatInit ==
    /\ tree \in RepeatTrees
    /\ dirs = Dirs
    /\ family \in Families
    /\ sstate = InitSearchState
    /\ fpc = "start"
    /\ cwd = <<>>
    /\ seenFiles = {}
    /\ seenDirs = {}
    /\ fonts = [v \in Variants |-> <<>>]

\* The constructor has returned or thrown, and another Fontpack is
\* constructed.
FontpackAgain ==
    /\ fpc \in {"ok", "error"}
    /\ tree' \in RepeatTrees
    /\ family' \in Families
    /\ fpc' = "start"
    /\ cwd' = <<>>
    /\ seenFiles' = {}
    /\ seenDirs' = {}
    /\ fonts' = [v \in Variants |-> <<>>]
    /\ UNCHANGED <<dirs, sstate, rvars>>

RepeatNext ==
    \/ FontNext
    \/ FontpackAgain

RepeatSpecInit == RendererIdle /\ RepeatInit

RepeatSpec == RepeatSpecInit /\ [][RepeatNext]_vars

(***************************************************************************)
(* Specifications.                                                         *)
(***************************************************************************)
RendererNext ==
    \/ \E p \in Producers, c \in Contents, w \in Wins : UpdateCall(p, c, w)
    \/ \E p \in Producers : UpdateLock(p)
    \/ \E p \in Producers : UpdateStore(p)
    \/ \E p \in Producers : UpdateNotify(p)
    \/ DtorCall
    \/ DtorLock
    \/ DtorSet
    \/ DtorNotify
    \/ DtorJoin
    \/ RenderInit
    \/ RenderLock
    \/ RenderWait
    \/ RenderSpurious
    \/ RenderReacquire
    \/ RenderCheck
    \/ RenderResize
    \/ RenderCopy
    \/ RenderDraw
    \/ RenderSwap

Init == RendererInit /\ FontIdle

Next == RendererNext

Spec == Init /\ [][Next]_vars

\* Every thread that can take a step eventually takes it; spurious wakeups
\* and new calls are not forced.
RenderProgress ==
    \/ RenderInit
    \/ RenderLock
    \/ RenderWait
    \/ RenderReacquire
    \/ RenderCheck
    \/ RenderResize
    \/ RenderCopy
    \/ RenderDraw
    \/ RenderSwap

UpdateProgress(p) == UpdateLock(p) \/ UpdateStore(p) \/ UpdateNotify(p)

DtorProgress == DtorLock \/ DtorSet \/ DtorNotify \/ DtorJoin

LiveSpec ==
    /\ Init
    /\ [][Next]_vars
    /\ WF_vars(RenderProgress)
    /\ \A p \in Producers : WF_vars(UpdateProgress(p))
    /\ WF_vars(DtorProgress)

(***************************************************************************)
(* Properties of the frame handoff.                                        *)
(***************************************************************************)
\* The render thread is in the drawing part of a pass.
Drawing == {"resize", "copy", "draw", "swap"}

\* C1 as stated: in every fair run with finitely many update calls, from
\* some point on the frame on display is the frame of the latest update
\* (same sequence number, content and size), whatever else happens.
C1_LatestShown == <>[](lastSub = DefaultFrame \/ shown = lastSub)

\* C1 amended: in every fair run, from some point on the frame on display is
\* the frame of the latest update, unless ~Renderer set the termination flag
\* before the render thread consumed that frame.
C1_LatestShownUnlessDestroyed ==
    <>[](\/ lastSub = DefaultFrame
         \/ shown = lastSub
         \/ (done /\ lastFrame # lastSub))

\* Three updates coalesced into a single pass that shows the latest one.
C1_Witness ==
    /\ lastSub.seqNo = MaxSubmits
    /\ shown = lastSub
    /\ Len(passes) = 1
    /\ ~done

\* C2: when ~Renderer has returned the render thread is terminated, and from
\* then on it stays so and no resize, draw or swapBuffers call is made.
C2_NoDrawAfterDestruction ==
    [][/\ dpc' = "returned" => rpc' = "terminated"
       /\ dpc = "returned" => (rpc' = rpc /\ vcalls' = vcalls)]_vars

\* ~Renderer has returned after setting the flag in the middle of a pass.
C2_Witness ==
    /\ dpc = "returned"
    /\ rAtD \in Drawing
    /\ vcalls > 0

\* C3: once ~Renderer has set the termination flag and bumped the sequence
\* number, in every fair run the render thread terminates and join returns.
C3_ShutdownCompletes == done ~> (dpc = "returned" /\ rpc = "terminated")

\* ~Renderer has returned with no update ever made and the render thread
\* blocked in cond.wait when the flag was set.
C3_Witness ==
    /\ dpc = "returned"
    /\ rAtD = "blocked"
    /\ submitted = 0

\* C4: the values written to nextFrame.seqNo by update and by ~Renderer are
\* 1, 2, 3, ... in lock order, and the slot holds the latest of them.
C4_SeqNoSeries ==
    /\ \A i \in 1 .. Len(stored) : stored[i] = i
    /\ nextFrame.seqNo = Len(stored)
    /\ seqNo = Len(stored)

\* Concurrent updates followed by the destructor's bump.
C4_Witness ==
    /\ done
    /\ Len(stored) = MaxSubmits + 1

\* The sequence number consumed by the pass before pass i (that of the
\* default-constructed lastFrame before the first pass).
PrevSeq(i) == IF i = 1 THEN DefaultFrame.seqNo ELSE passes[i - 1].seq

\* Pass i consumed the successor of the previous sequence number and its
\* resize call returned false.
DeltaDue(i) == passes[i].seq = PrevSeq(i) + 1 /\ passes[i].resized = "no"

\* C5: in every pass deltaCopyCells and setDeltaFrame (true) are used iff the
\* consumed sequence number is the previous one plus one and resize returned
\* false; otherwise copyCells and setDeltaFrame (false).
C5_DeltaIffAdjacentNoResize ==
    \A i \in 1 .. Len(passes) :
        /\ passes[i].copy # "unset" =>
               passes[i].copy = (IF DeltaDue(i) THEN "delta" ELSE "full")
        /\ passes[i].flag # "unset" =>
               passes[i].flag = (IF DeltaDue(i) THEN "delta" ELSE "full")

\* A delta pass, then a full pass forced by a skipped sequence number.
C5_Witness ==
    /\ Len(passes) >= 2
    /\ passes[Len(passes) - 1].flag = "delta"
    /\ passes[Len(passes)].flag = "full"
    /\ passes[Len(passes)].resized = "no"
    /\ passes[Len(passes)].seq > passes[Len(passes) - 1].seq + 1

\* C6: while the render thread resizes, copies cells, draws or swaps it does
\* not hold mx, so the lock is free or held by an update or by ~Renderer.
C6_NoLockWhileDrawing ==
    rpc \in Drawing =>
        /\ mx # "rt"
        /\ mx = "none" \/ mx = "dtor" \/ (mx \in Producers /\ ppc[mx] = "store")

\* An update holds the lock and is about to store while a pass is drawing.
C6_Witness ==
    /\ rpc = "draw"
    /\ mx \in Producers

(***************************************************************************)
(* Properties of the font search.                                          *)
(***************************************************************************)
\* Path s ends with the characters e.
EndsWith(s, e) ==
    /\ Len(e) <= Len(s)
    /\ SubSeq(s, Len(s) - Len(e) + 1, Len(s)) = e

\* d is dir or a directory above it.
IsAbove(d, dir) == Len(d) <= Len(dir) /\ SubSeq(dir, 1, Len(d)) = d

\* The depth nftw reports for the file with this path.
PathLevel(path) == Cardinality({i \in 1 .. Len(path) : path[i] = "/"})

\* The files of the tree that the filter saves as Regular for the family.
RegularFiles == {f \in tree : Classify(f.name, family) = "regular"}

\* C7: the constructor succeeds only with a Regular path recorded, which is
\* then the loaded Regular font and a file of the tree saved as Regular; with
\* no such file in the tree the constructor throws.
C7_RegularOrFailure ==
    /\ fpc = "ok" =>
           /\ Len(sstate.regular) > 0
           /\ fonts.regular = sstate.regular
           /\ \E f \in RegularFiles : FilePath(f) = fonts.regular
    /\ (fpc \in {"ok", "error"} /\ RegularFiles = {}) =>
           /\ fpc = "error"
           /\ \A v \in Variants : fonts[v] = <<>>

\* The constructor has thrown with only a Bold candidate recorded.
C7_Witness ==
    /\ fpc = "error"
    /\ Len(sstate.bold) > 0
    /\ Len(sstate.regular) = 0

\* C8: during the walk and in the loaded fonts every recorded path ends with
\* the committed extension, and the committed extension is empty exactly
\* when the four paths are.
C8_OneExtension ==
    /\ \A v \in Variants : Len(sstate[v]) > 0 => EndsWith(sstate[v], sstate.ext)
    /\ (sstate.ext = <<>>) <=> (\A v \in Variants : sstate[v] = <<>>)
    /\ \A v \in Variants : Len(fonts[v]) > 0 => EndsWith(fonts[v], sstate.ext)

\* Fonts were loaded after a candidate with another extension was passed over.
C8_Witness ==
    /\ fpc = "ok"
    /\ Len(fonts.bold) > 0
    /\ \E f \in seenFiles :
           /\ Classify(f.name, family) # "none"
           /\ ~EndsWith(FilePath(f), sstate.ext)

\* C9: a Bold, Italic or BoldItalic font that is loaded comes from a
\* directory whose subtree holds a Regular file of the family.
C9_NoVariantWithoutRegular ==
    fpc = "ok" =>
        \A v \in Variants \ {"regular"} :
            \A f \in tree :
                FilePath(f) = fonts[v] =>
                    \E g \in RegularFiles : IsAbove(f.dir, g.dir)

\* C10: when nftw reports a directory of depth d while a Regular candidate
\* of depth d + 1 is recorded, the walk ends with that report.
C10_StopsAtRegularDirectory ==
    [][(/\ fpc = "walk"
        /\ seenDirs' # seenDirs
        /\ Len(sstate.regular) > 0
        /\ PathLevel(sstate.regular) = Len(cwd) + 1)
           => fpc' = "walked"]_vars

\* C11: in Scenario A the constructor succeeds whatever the order in which
\* nftw reports the four files, and loads each of the four fonts from the
\* file of its variant, the committed extension being .ttf.
C11_ScenarioA ==
    (tree = ScenarioA /\ fpc \in {"ok", "error"}) =>
        /\ fpc = "ok"
        /\ fonts.regular = FilePath(GoRegularTtf)
        /\ fonts.bold = FilePath(GoBoldTtf)
        /\ fonts.italic = FilePath(GoItalicTtf)
        /\ fonts.boldItalic = FilePath(GoBoldItalicTtf)
        /\ sstate.ext = <<".", "t", "t", "f">>

\* The four fonts of Scenario A are loaded.
C11_Witness ==
    /\ tree = ScenarioA
    /\ fpc = "ok"
    /\ seenFiles = ScenarioA
    /\ \A v \in Variants : Len(fonts[v]) > 0

\* The extension fontFileFilter finds in the name of file f.
ExtOf(f) == StrAt(f.name, ExtPos(f.name))

\* C12: when nftw reports a file that the filter identifies as a variant and
\* whose extension differs from the committed one, the four recorded paths,
\* the committed extension and the recorded depth stay as they are and the
\* walk goes on.
C12_MismatchRejected ==
    [][\A f \in tree :
           (/\ fpc = "walk"
            /\ f \notin seenFiles
            /\ f \in seenFiles'
            /\ sstate.ext # <<>>
            /\ ExtOf(f) # sstate.ext
            /\ Classify(f.name, sstate.fontname) # "none")
               => (sstate' = sstate /\ fpc' = "walk")]_vars

\* A candidate of another extension has been passed over deeper than the
\* recorded depth, and the walk has a file left to report.
C12_Witness ==
    /\ fpc = "walk"
    /\ tree # seenFiles
    /\ \E f \in seenFiles :
           /\ Classify(f.name, family) # "none"
           /\ sstate.ext # <<>>
           /\ ExtOf(f) # sstate.ext
           /\ Len(f.dir) + 1 # sstate.level

\* C13: in Scenario B the constructor succeeds whatever the order in which
\* nftw reports the five files, with the committed extension .ttf and the
\* Bold font loaded from Go-Bold.ttf.
C13_ScenarioB ==
    (tree = ScenarioB /\ fpc \in {"ok", "error"}) =>
        /\ fpc = "ok"
        /\ sstate.ext = <<".", "t", "t", "f">>
        /\ fonts.bold = FilePath(GoBoldTtf)

(***************************************************************************)
(* The naming rules as the specification states them: whole-string         *)
(* matches against the lexicon, and the extension with .gz merged.         *)
(***************************************************************************)
\* a and b are the same string up to the case of letters.
SameFold(a, b) ==
    /\ Len(a) = Len(b)
    /\ \A i \in 1 .. Len(a) : ToLower(a[i]) = ToLower(b[i])

Lexicon ==
    [regular |-> {<<>>, <<"R">>, <<"R", "e", "g", "u", "l", "a", "r">>},
     bold |-> {<<"B">>, <<"B", "o", "l", "d">>},
     italic |-> {<<"I">>, <<"I", "t">>, <<"I", "t", "a", "l", "i", "c">>,
                 <<"O">>, <<"O", "b">>,
                 <<"O", "b", "l", "i", "q", "u", "e">>},
     boldItalic |-> {<<"B", "I">>, <<"B", "o", "l", "d", "I", "t">>,
                     <<"B", "o", "l", "d", "I", "t", "a", "l", "i", "c">>}]

\* The variant whose lexicon holds mid, "none" if none does.
LexVariant(mid) ==
    LET vs == {v \in Variants : \E w \in Lexicon[v] : SameFold(mid, w)}
    IN  IF vs = {} THEN "none" ELSE CHOOSE v \in vs : TRUE

\* The positions of the dots of name.
Dots(name) == {i \in 1 .. Len(name) : name[i] = "."}

\* The greatest element of a non-empty set of numbers.
Last(S) == CHOOSE i \in S : \A j \in S : j <= i

\* Where the extension of name starts: at its last dot, or at the dot
\* before when the last suffix is .gz and there is one; 0 with no dot.
LexExtPos(name) ==
    LET ds == Dots(name)
    IN  IF ds = {}
        THEN 0
        ELSE LET p == Last(ds)
                 before == {i \in ds : i < p}
             IN  IF SameFold(SubSeq(name, p, Len(name)), <<".", "g", "z">>)
                    /\ before # {}
                 THEN Last(before)
                 ELSE p

LexExt(name) ==
    IF LexExtPos(name) = 0
    THEN <<>>
    ELSE SubSeq(name, LexExtPos(name), Len(name))

LexAccepted(name) ==
    \E e \in {<<".", "t", "t", "f">>, <<".", "o", "t", "f">>,
              <<".", "p", "c", "f", ".", "g", "z">>} :
        SameFold(LexExt(name), e)

\* name starts with the family name fam.
StartsWith(name, fam) ==
    /\ Len(fam) <= Len(name)
    /\ SameFold(SubSeq(name, 1, Len(fam)), fam)

\* The text between the family name and the extension, less one leading
\* hyphen, underscore or space.
LexMid(name, fam) ==
    LET m == SubSeq(name, Len(fam) + 1, LexExtPos(name) - 1)
    IN  IF Len(m) > 0 /\ m[1] \in {"-", "_", " "} THEN Tail(m) ELSE m

\* sstate as it is before the first candidate of the call is recorded.
NothingRecorded == sstate = [InitSearchState EXCEPT !.fontname = family]

\* C14: once the one file of the tree has been reported, if its name starts
\* with the family name and has an accepted extension then it is recorded
\* as the variant whose lexicon holds its middle part, and as nothing when
\* no lexicon does.
C14_LexiconExact ==
    \A f \in seenFiles :
        (StartsWith(f.name, family) /\ LexAccepted(f.name)) =>
            LET v == LexVariant(LexMid(f.name, family))
            IN  IF v = "none"
                THEN NothingRecorded
                ELSE /\ sstate[v] = FilePath(f)
                     /\ \A u \in Variants \ {v} : sstate[u] = <<>>

\* C15: once the one file of the tree has been reported, a name whose
\* extension is not .ttf, .otf or .pcf.gz has left sstate as it was, a
\* recorded extension is the extension of the name with .gz merged, and a
\* name of the family with an accepted extension and a middle part of the
\* lexicon has been recorded with that extension.
C15_ExtensionRule ==
    \A f \in seenFiles :
        /\ ~LexAccepted(f.name) => NothingRecorded
        /\ sstate.ext # <<>> => sstate.ext = LexExt(f.name)
        /\ (/\ LexAccepted(f.name)
            /\ StartsWith(f.name, family)
            /\ LexVariant(LexMid(f.name, family)) # "none")
               => sstate.ext = LexExt(f.name)

\* A .pcf.gz file has been recorded with the extension .pcf.gz.
C15_Witness ==
    /\ sstate.ext = <<".", "p", "c", "f", ".", "g", "z">>
    /\ Len(sstate.regular) > 0
    /\ \E f \in seenFiles : EndsWith(f.name, sstate.ext)

\* sstate at the end of the walk of a tree t of at most one file for the
\* font name fam, when the walk begins with nothing recorded.
FirstRun(t, fam) ==
    LET st == [InitSearchState EXCEPT !.fontname = fam]
    IN  IF t = {}
        THEN st
        ELSE LET f == CHOOSE g \in t : TRUE
             IN  fontFileFilter(st, FilePath(f), FileBase(f), FTW_F,
                                Len(f.dir) + 1).st

\* C16: a construction ends as it would have ended had it been the first:
\* it throws when its own tree gives no Regular for its font name, and
\* otherwise loads the fonts its own tree gives.
C16_OwnTreeOnly ==
    fpc \in {"ok", "error"} =>
        LET st == FirstRun(tree, family)
        IN  IF Len(st.regular) = 0
            THEN fpc = "error"
            ELSE fpc = "ok" /\ fonts = LoadFonts(st)

(***************************************************************************)
(* Further properties of the renderer.                                     *)
(***************************************************************************)
\* The order of the steps of a render pass, and the step after it.
PassOrder ==
    {<<"resize", "copy">>, <<"copy", "draw">>, <<"draw", "swap">>,
     <<"swap", "lock">>}

C17_Step ==
    /\ (rpc' = "terminated" /\ rpc # "terminated") =>
           (rpc = "check" /\ done /\ mx = "rt")
    /\ (done /\ rpc \in Drawing /\ rpc' # rpc) => <<rpc, rpc'>> \in PassOrder
    /\ done => Len(passes') = Len(passes)

\* C17: the render thread terminates only where cond.wait has returned and
\* it holds the lock and reads done as set; with done set, a pass that is
\* under way goes through its steps in order and in every fair run gets past
\* swapBuffers, and no pass is begun.
C17_TerminatesOnlyAfterWait ==
    /\ [][C17_Step]_vars
    /\ (done /\ rpc \in Drawing) ~> (rpc = "lock")

\* The thread has terminated after ~Renderer set the flag in the middle of a
\* pass, the frame of the latest update never having been consumed.
C17_Witness ==
    /\ rpc = "terminated"
    /\ rAtD \in Drawing
    /\ lastSub.seqNo > lastFrame.seqNo
    /\ shown = lastFrame

\* The number of update calls that have stored their frame.
Stores == Len(stored) - (IF done THEN 1 ELSE 0)

\* C18: the sequence numbers consumed by the passes so far are strictly
\* increasing and are numbers stored by update calls, so that there are no
\* more passes than update calls that have stored.
C18_ConsumedIncreasing ==
    /\ \A i \in 1 .. Len(passes) :
           /\ passes[i].seq \in 1 .. Stores
           /\ i > 1 => passes[i - 1].seq < passes[i].seq
    /\ Len(passes) <= Stores
    /\ Stores <= submitted

\* Every update has had a pass of its own, and the wait has been woken with
\* no new sequence number in the slot.
C18_Witness ==
    /\ Len(passes) = MaxSubmits
    /\ rpc = "woken"
    /\ lastFrame.seqNo = nextFrame.seqNo
    /\ ~done

\* The file or directory with this path is in the subtree of directory d.
PathUnder(path, d) ==
    LET p == DirPath(d) \o <<"/">>
    IN  Len(p) <= Len(path) /\ SubSeq(path, 1, Len(p)) = p

\* C19: a report of a finished directory leaves a recorded Regular path as
\* it is, and changes sstate only if no Regular is recorded and one of the
\* recorded paths is in the subtree of that directory.
C19_RegularKeptAtDirectoryEnd ==
    [][seenDirs' # seenDirs =>
           /\ Len(sstate.regular) > 0 => sstate'.regular = sstate.regular
           /\ sstate' # sstate =>
                  /\ Len(sstate.regular) = 0
                  /\ \E v \in Variants :
                         /\ Len(sstate[v]) > 0
                         /\ PathUnder(sstate[v], cwd)]_vars

\* A Regular file of the root is recorded with the depth 1; a candidate with
\* another extension in a subdirectory of the root was passed over after it,
\* and that subdirectory has been reported since.
C19_Witness ==
    /\ Len(sstate.regular) > 0
    /\ PathLevel(sstate.regular) = 1
    /\ sstate.level = 1
    /\ Len(sstate.bold) = 0
    /\ \E f \in seenFiles :
           /\ Len(f.dir) = 1
           /\ f.dir \in seenDirs
           /\ Classify(f.name, family) = "bold"

\* C20: the first pass of the render thread copies all cells and draws a
\* full frame.
C20_FirstPassFull ==
    Len(passes) >= 1 =>
        /\ passes[1].copy \in {"unset", "full"}
        /\ passes[1].flag \in {"unset", "full"}

====
